---- MODULE Spec2Model ----
(***************************************************************************)
(* Repair report tool: the project model (items, images, title,            *)
(* max_images_per_row), its editing operations, and the Excel / PDF        *)
(* export engine, for both front ends of the repository:                   *)
(*   "legacy"  src/repair_report_tool-11.py   (class RepairReportTool)     *)
(*   "modern"  src/repair_report_modern.py    (class ModernRepairTool)     *)
(* Positions in lists are 1-based here; the Python code is 0-based.        *)
(***************************************************************************)
EXTENDS Integers, Sequences, FiniteSets, TLC

(* ------------------------------ bounds --------------------------------- *)
\* editing specification
MaxItems == 2
MaxPaths == 2
MaxId == 3
MaxDialogs == 2
\* export specifications
MaxExportItems == 4
MaxExportImages == 5
MaxExportTotal == 6
\* repeated-export specification: projects and number of export calls
MaxRepeatItems == 2
MaxRepeatImages == 2
MaxExports == 2
\* wide-sheet specification (one item, many images)
MaxWideImages == 25
\* image sizes of the fit specification
MaxDim == 13
LongSide == 2000

Tools == {"legacy", "modern"}
Titles == {"", "Q1 Maintenance"}

(* ------------------------------ helpers -------------------------------- *)
Range(s) == {s[i] : i \in DOMAIN s}

Min(S) == CHOOSE x \in S : \A y \in S : x <= y

Max(S) == CHOOSE x \in S : \A y \in S : y <= x

\* python: max(len(it.get('images', [])) for it in self.items), items non-empty
MaxImageCount(its) == Max({Len(its[i].images) : i \in DOMAIN its})

\* python: del lst[i]
DeleteAt(s, i) == [j \in 1..(Len(s) - 1) |-> IF j < i THEN s[j] ELSE s[j + 1]]

\* python: del self.items[idx] for every selected idx, highest first
RECURSIVE DeleteAll(_, _)
DeleteAll(s, S) ==
    IF S = {} THEN s
    ELSE LET i == Max(S)
         IN DeleteAll(IF i \in DOMAIN s THEN DeleteAt(s, i) ELSE s, S \ {i})

\* python: lst.remove(x), the first occurrence
RemoveFirst(s, x) == DeleteAt(s, Min({i \in DOMAIN s : s[i] = x}))

\* C28 mutant: the neighbour is overwritten instead of exchanged
C28_SwapMutant(s, i, j) == [s EXCEPT ![j] = s[i]]

\* python: a[i], a[j] = a[j], a[i]
Swap(s, i, j) == [s EXCEPT ![i] = s[j], ![j] = s[i]]

\* python: for fp in fps: if fp not in images: images.append(fp)
\* C24 mutant: the membership test always fails
C24_HoldsMutant(images, fp) == FALSE

\* fp in item['images']
Holds(images, fp) == fp \in Range(images)

RECURSIVE AppendNew(_, _)
AppendNew(images, fps) ==
    IF fps = <<>> THEN images
    ELSE AppendNew(IF Holds(images, Head(fps)) THEN images ELSE Append(images, Head(fps)),
                   Tail(fps))

\* an image-source reference: a file path, directory and base name
Path(n) == [dir |-> "photos", name |-> n]

\* C7 mutant: a placeholder that names another file
C7_BasenameMutant(p) == p.name + 1

\* python: os.path.basename(img_path)
Basename(p) == p.name

EditPaths == {Path(n) : n \in 1..MaxPaths}

\* duplicate-free lists of paths of length lo..hi: what a file chooser or a
\* drop event delivers
FileLists(lo, hi) ==
    {s \in UNION {[1..n -> EditPaths] : n \in lo..hi} :
        \A i, j \in DOMAIN s : i # j => s[i] # s[j]}

\* python: the default description of item n is modelled as the number n; 0 is a text typed by the user
DefaultDescription(n) == n

Descriptions == 0..MaxItems

(* ------------------------------- state --------------------------------- *)
VARIABLES
    tool,                \* which front end runs
    project_title,       \* self.project_title / self.project_title_var
    items,               \* self.items: list of {id, description, images}
    current_item_id,     \* self.current_item_id
    max_images_per_row,  \* self.max_images_per_row
    selection,           \* legacy: item_tree.selection() (set of positions);
                         \* modern: {} for selected_item_index None, else {index + 1}
    assignments,         \* self.assignments: list of [fp, v] in insertion order
    dialogs,             \* the open batch-assign dialogs, oldest first
    file_pattern,        \* the files on disk: kind of the file a path names
    tmp_writable,        \* whether the temp directory accepts new files
    project_file,        \* the project file save_project wrote, if any
    pc,                  \* position of the running export handler
    cur,                 \* export loop: position of the next item
    sheet,               \* the openpyxl worksheet being built
    story,               \* the reportlab story being built
    temp_files,          \* the export call's temp_files list
    tmp_dir,             \* artifact files present in the temp directory
    timers,              \* cleanup callbacks scheduled and not yet run
    next_uuid,           \* source of uuid.uuid4() values
    destination,         \* what the destination path holds
    written,             \* the documents handed to wb.save / doc.build and written
    report,              \* dialogs / status shown to the user by the export call
    fit_in,              \* fit specification: the source size and the target
    fit_out              \* fit specification: the fitted size

projVars == <<tool, project_title, items, current_item_id, max_images_per_row, selection>>
dlgVars == <<assignments, dialogs>>
envVars == <<file_pattern, tmp_writable, project_file>>
exportVars == <<pc, cur, sheet, story, temp_files, tmp_dir, timers, next_uuid,
                destination, written, report>>
fitVars == <<fit_in, fit_out>>
vars == <<projVars, dlgVars, envVars, exportVars, fitVars>>

(* ------------------------- the project model --------------------------- *)
\* C22 mutant: the value is never recomputed
C22_NoUpdateMutant(its, old) == old

\* update_max_images_per_row (legacy) / the tail of update_stats (modern):
\*   if self.items: self.max_images_per_row = max(len(images) ...) or 1
update_max_images_per_row(its, old) ==
    IF its # <<>>
    THEN (IF MaxImageCount(its) = 0 THEN 1 ELSE MaxImageCount(its))
    ELSE old

NewItem(id, n) == [id |-> id, description |-> DefaultDescription(n), images |-> <<>>]

\* sel[0] of item_tree.selection() / selected_item_index + 1
Selected == Min(selection)

\* legacy: dialog.grab_set() keeps the main window from handling events while a
\* batch dialog is open; no handler runs while an export call is running
Interactive == pc = "idle" /\ (tool = "legacy" => dialogs = <<>>)

\* lists of image counts, one per item
CountLists(maxItems, maxImages) == UNION {[1..n -> 0..maxImages] : n \in 0..maxItems}

ItemsOfCounts(c) ==
    [i \in DOMAIN c |-> [id |-> i, description |-> DefaultDescription(i),
                         images |-> [k \in 1..c[i] |-> Path(k)]]]

\* data = {'title': ..., 'items': self.items, 'max_images_per_row': ...} as
\* json.dump writes it and json.load returns it: texts, numbers and lists keep
\* their values and their order
ProjectData(title, its, mipr) ==
    [title |-> title, items |-> its, max_images_per_row |-> mipr]

\* project files from earlier sessions: title, items, max_images_per_row
ProjectFiles ==
    {ProjectData(t, ItemsOfCounts(c), m) :
        <<t, c, m>> \in {x \in Titles \X CountLists(MaxItems, MaxPaths) \X (1..MaxPaths) :
                           x[2] # <<>> =>
                               x[3] = update_max_images_per_row(ItemsOfCounts(x[2]), 1)}}

add_item ==
    /\ Interactive
    /\ Len(items) < MaxItems /\ current_item_id < MaxId
    /\ current_item_id' = current_item_id + 1
    /\ items' = Append(items, NewItem(current_item_id + 1, Len(items) + 1))
    /\ max_images_per_row' = update_max_images_per_row(items', max_images_per_row)
    /\ selection' = {Len(items')}
    /\ UNCHANGED <<tool, project_title, dlgVars, envVars, exportVars, fitVars>>

\* legacy: Treeview click; any set of rows may end up selected
on_item_select ==
    /\ Interactive /\ tool = "legacy"
    /\ \E S \in SUBSET (DOMAIN items) : selection' = S
    /\ UNCHANGED <<tool, project_title, items, current_item_id, max_images_per_row,
                   dlgVars, envVars, exportVars, fitVars>>

\* modern: click on an item card
select_item ==
    /\ Interactive /\ tool = "modern"
    /\ \E idx \in DOMAIN items : selection' = {idx}
    /\ UNCHANGED <<tool, project_title, items, current_item_id, max_images_per_row,
                   dlgVars, envVars, exportVars, fitVars>>

\* legacy delete_selected_item, confirmed
delete_selected_item ==
    /\ Interactive /\ tool = "legacy"
    /\ selection # {}
    /\ items' = DeleteAll(items, selection)
    /\ max_images_per_row' = update_max_images_per_row(items', max_images_per_row)
    /\ selection' = {}
    /\ UNCHANGED <<tool, project_title, current_item_id, dlgVars, envVars, exportVars, fitVars>>

\* modern delete_item(idx), confirmed: from a card's button (any idx) or from
\* delete_selected_item (idx = selected_item_index); the selection is kept
delete_item ==
    /\ pc = "idle" /\ tool = "modern"
    /\ \E idx \in DOMAIN items :
        /\ items' = DeleteAt(items, idx)
        /\ max_images_per_row' = update_max_images_per_row(items', max_images_per_row)
    /\ UNCHANGED <<tool, project_title, current_item_id, selection,
                   dlgVars, envVars, exportVars, fitVars>>

move_item_up ==
    /\ Interactive
    /\ selection # {} /\ Selected \in DOMAIN items /\ Selected > 1
    /\ items' = Swap(items, Selected, Selected - 1)
    /\ selection' = {Selected - 1}
    /\ max_images_per_row' =
          IF tool = "legacy" THEN update_max_images_per_row(items', max_images_per_row)
          ELSE max_images_per_row
    /\ UNCHANGED <<tool, project_title, current_item_id, dlgVars, envVars, exportVars, fitVars>>

move_item_down ==
    /\ Interactive
    /\ selection # {} /\ Selected < Len(items)
    /\ items' = Swap(items, Selected, Selected + 1)
    /\ selection' = {Selected + 1}
    /\ max_images_per_row' =
          IF tool = "legacy" THEN update_max_images_per_row(items', max_images_per_row)
          ELSE max_images_per_row
    /\ UNCHANGED <<tool, project_title, current_item_id, dlgVars, envVars, exportVars, fitVars>>

\* the description entry changed: the typed text, or (modern, empty text) the default
on_description_change ==
    /\ Interactive
    /\ selection # {} /\ Selected \in DOMAIN items
    /\ \E d \in {0} \cup (IF tool = "modern" THEN {DefaultDescription(Selected)} ELSE {}) :
          items' = [items EXCEPT ![Selected].description = d]
    /\ selection' = {Selected}
    /\ max_images_per_row' =
          IF tool = "legacy" THEN update_max_images_per_row(items', max_images_per_row)
          ELSE max_images_per_row
    /\ UNCHANGED <<tool, project_title, current_item_id, dlgVars, envVars, exportVars, fitVars>>

\* add_images: fps is what the file chooser returned; legacy keeps the files that
\* pass _validate_image_file, modern keeps them all
add_images ==
    /\ Interactive
    /\ selection # {} /\ Selected \in DOMAIN items
    /\ \E fps \in FileLists(1, MaxPaths), valid \in SUBSET EditPaths :
        LET kept == IF tool = "legacy" THEN SelectSeq(fps, LAMBDA f : f \in valid) ELSE fps
        IN items' = [items EXCEPT ![Selected].images = AppendNew(@, kept)]
    /\ max_images_per_row' = update_max_images_per_row(items', max_images_per_row)
    /\ selection' = IF tool = "legacy" THEN {} ELSE selection
    /\ UNCHANGED <<tool, project_title, current_item_id, dlgVars, envVars, exportVars, fitVars>>

\* delete_image(img_path, item_index), confirmed
delete_image ==
    /\ Interactive
    /\ \E idx \in DOMAIN items : \E p \in Range(items[idx].images) :
        items' = [items EXCEPT ![idx].images = RemoveFirst(@, p)]
    /\ max_images_per_row' = update_max_images_per_row(items', max_images_per_row)
    /\ selection' = IF tool = "legacy" THEN {} ELSE selection
    /\ UNCHANGED <<tool, project_title, current_item_id, dlgVars, envVars, exportVars, fitVars>>

\* legacy clear_images, confirmed
clear_images ==
    /\ Interactive /\ tool = "legacy"
    /\ selection # {}
    /\ items' = [items EXCEPT ![Selected].images = <<>>]
    /\ max_images_per_row' = update_max_images_per_row(items', max_images_per_row)
    /\ selection' = {}
    /\ UNCHANGED <<tool, project_title, current_item_id, dlgVars, envVars, exportVars, fitVars>>

(* ----------------------- batch-assign dialogs -------------------------- *)
\* show_batch_assign_dialog: self.assignments = {} and one IntVar(value=1) per
\* file; the new dialog's variables replace those of any dialog still open
NewAssignments(fps) == [i \in DOMAIN fps |-> [fp |-> fps[i], v |-> 1]]

OpenDialog(dlgs, fps, nitems) ==
    Append([k \in DOMAIN dlgs |-> [dlgs[k] EXCEPT !.current = FALSE]],
           [files |-> fps, options |-> nitems, current |-> TRUE])

\* execute(): for fp, v in self.assignments.items(): append fp to items[v-1]
\* unless the index is out of range or the item already holds fp
RECURSIVE ApplyAssignments(_, _)
ApplyAssignments(its, asg) ==
    IF asg = <<>> THEN its
    ELSE LET a == Head(asg)
             next == IF a.v \in DOMAIN its /\ ~Holds(its[a.v].images, a.fp)
                     THEN [its EXCEPT ![a.v].images = Append(@, a.fp)]
                     ELSE its
         IN ApplyAssignments(next, Tail(asg))

\* on_drop with exactly one image file
on_drop_single ==
    /\ Interactive
    /\ \E f \in EditPaths :
        IF selection # {} /\ Selected \in DOMAIN items
        THEN \* add to the selected item unless it already holds the file
             /\ ~Holds(items[Selected].images, f)
             /\ items' = [items EXCEPT ![Selected].images = Append(@, f)]
             /\ selection' = IF tool = "legacy" THEN {} ELSE selection
             /\ UNCHANGED current_item_id
        ELSE \* nothing (validly) selected: create a new item, confirmed, and add to it
             /\ tool = "modern" \/ selection = {}
             /\ Len(items) < MaxItems /\ current_item_id < MaxId
             /\ current_item_id' = current_item_id + 1
             /\ items' = Append(items, [NewItem(current_item_id + 1, Len(items) + 1)
                                           EXCEPT !.images = <<f>>])
             /\ selection' = IF tool = "legacy" THEN {} ELSE {Len(items')}
    /\ max_images_per_row' = update_max_images_per_row(items', max_images_per_row)
    /\ UNCHANGED <<tool, project_title, dlgVars, envVars, exportVars, fitVars>>

\* on_drop with several image files: the batch dialog opens; legacy first creates
\* an item when nothing is selected (confirmed), modern opens no dialog without items
on_drop_many ==
    /\ Interactive
    /\ Len(dialogs) < MaxDialogs
    /\ \E fps \in FileLists(2, MaxPaths) :
        IF tool = "legacy" /\ selection = {}
        THEN /\ Len(items) < MaxItems /\ current_item_id < MaxId
             /\ current_item_id' = current_item_id + 1
             /\ items' = Append(items, NewItem(current_item_id + 1, Len(items) + 1))
             /\ max_images_per_row' = update_max_images_per_row(items', max_images_per_row)
             /\ selection' = {Len(items')}
             /\ assignments' = NewAssignments(fps)
             /\ dialogs' = OpenDialog(dialogs, fps, Len(items'))
        ELSE /\ items # <<>>
             /\ assignments' = NewAssignments(fps)
             /\ dialogs' = OpenDialog(dialogs, fps, Len(items))
             /\ UNCHANGED <<items, current_item_id, max_images_per_row, selection>>
    /\ UNCHANGED <<tool, project_title, envVars, exportVars, fitVars>>

\* batch_add_images: with no items an item is created first (confirmed); the
\* chosen files (legacy: those that validate, at least one) go to the dialog
batch_add_images ==
    /\ Interactive
    /\ Len(dialogs) < MaxDialogs
    /\ \E fps \in FileLists(1, MaxPaths) :
        IF items = <<>>
        THEN /\ current_item_id < MaxId
             /\ current_item_id' = current_item_id + 1
             /\ items' = <<NewItem(current_item_id + 1, 1)>>
             /\ max_images_per_row' = update_max_images_per_row(items', max_images_per_row)
             /\ selection' = {1}
             /\ assignments' = NewAssignments(fps)
             /\ dialogs' = OpenDialog(dialogs, fps, 1)
        ELSE /\ assignments' = NewAssignments(fps)
             /\ dialogs' = OpenDialog(dialogs, fps, Len(items))
             /\ UNCHANGED <<items, current_item_id, max_images_per_row, selection>>
    /\ UNCHANGED <<tool, project_title, envVars, exportVars, fitVars>>

\* a dialog row's combobox: update_desc sets that row's variable when the chosen
\* project still exists; only the newest dialog's variables are in self.assignments
combo_selected ==
    /\ pc = "idle"
    /\ \E k \in DOMAIN dialogs : \E i \in DOMAIN dialogs[k].files :
       \E pidx \in 1..dialogs[k].options :
        /\ dialogs[k].current
        /\ pidx \in DOMAIN items
        /\ assignments' = [assignments EXCEPT ![i].v = pidx]
    /\ UNCHANGED <<projVars, dialogs, envVars, exportVars, fitVars>>

\* the three quick-assign buttons of any open dialog write self.assignments
quick_assign ==
    /\ pc = "idle"
    /\ dialogs # <<>>
    /\ \/ assignments' = [i \in DOMAIN assignments |-> [assignments[i] EXCEPT !.v = 1]]
       \/ /\ items # <<>>
          /\ assignments' = [i \in DOMAIN assignments |->
                                [assignments[i] EXCEPT !.v = ((i - 1) % Len(items)) + 1]]
       \/ /\ selection # {}
          /\ assignments' = [i \in DOMAIN assignments |->
                                [assignments[i] EXCEPT !.v = Selected]]
    /\ UNCHANGED <<projVars, dialogs, envVars, exportVars, fitVars>>

\* the execute button of dialog k: applies self.assignments, destroys dialog k
execute ==
    /\ pc = "idle"
    /\ \E k \in DOMAIN dialogs : dialogs' = DeleteAt(dialogs, k)
    /\ items' = ApplyAssignments(items, assignments)
    /\ max_images_per_row' = update_max_images_per_row(items', max_images_per_row)
    /\ selection' = IF tool = "legacy" THEN {} ELSE selection
    /\ UNCHANGED <<tool, project_title, current_item_id, assignments,
                   envVars, exportVars, fitVars>>

\* the cancel button of dialog k
cancel_dialog ==
    /\ pc = "idle"
    /\ \E k \in DOMAIN dialogs : dialogs' = DeleteAt(dialogs, k)
    /\ UNCHANGED <<projVars, assignments, envVars, exportVars, fitVars>>

(* ---------------------- project-level operations ----------------------- *)
\* refresh_display: the list is rebuilt and update_stats runs; rebuilding the
\* legacy Treeview drops its selection
refresh_display ==
    /\ Interactive
    /\ max_images_per_row' = update_max_images_per_row(items, max_images_per_row)
    /\ selection' = IF tool = "legacy" THEN {} ELSE selection
    /\ UNCHANGED <<tool, project_title, items, current_item_id,
                   dlgVars, envVars, exportVars, fitVars>>

\* a title as typed with blanks around it, and str.strip() on the model's titles
PaddedTitle == " Q1 Maintenance "
Strip(t) == IF t = PaddedTitle THEN "Q1 Maintenance" ELSE t

set_title ==
    /\ Interactive
    /\ \E t \in Titles \cup {PaddedTitle} : project_title' = t
    /\ UNCHANGED <<tool, items, current_item_id, max_images_per_row, selection,
                   dlgVars, envVars, exportVars, fitVars>>

\* new_project: with items (confirmed) everything is reset; without, the title
new_project ==
    /\ Interactive
    /\ project_title' = ""
    /\ IF items # <<>>
       THEN /\ items' = <<>>
            /\ current_item_id' = 0
            /\ selection' = {}
            /\ max_images_per_row' = update_max_images_per_row(items', max_images_per_row)
       ELSE UNCHANGED <<items, current_item_id, selection, max_images_per_row>>
    /\ UNCHANGED <<tool, dlgVars, envVars, exportVars, fitVars>>

\* legacy get_project_title: the entry's text, stripped; it is also written back
\* to self.project_title
get_project_title == Strip(project_title)

\* the title as the export and save handlers read it: the legacy ones store the
\* stripped text as the title, the modern ones only read project_title_var
TitleRead == IF tool = "legacy" THEN get_project_title ELSE project_title

\* C19 mutant: the counter restarts at the number of items of the file
C19_LoadedIdMutant(its) == Len(its)

\* self.current_item_id = max((it.get('id',0) for it in self.items), default=0)
LoadedId(its) == IF its = <<>> THEN 0 ELSE Max({its[i].id : i \in DOMAIN its})

\* save_project: the data is written to the chosen path, or open() / json.dump
\* raises and nothing is; the legacy handler reads the title with
\* get_project_title
save_project ==
    /\ Interactive
    /\ \E ok \in BOOLEAN :
        project_file' = IF ok THEN {ProjectData(TitleRead, items, max_images_per_row)}
                        ELSE project_file
    /\ project_title' = TitleRead
    /\ UNCHANGED <<tool, items, current_item_id, max_images_per_row, selection,
                   file_pattern, tmp_writable, dlgVars, exportVars, fitVars>>

\* open_project of a file written by save_project, now or in an earlier session
open_project ==
    /\ Interactive
    /\ \E f \in ProjectFiles \cup project_file :
        /\ project_title' = f.title
        /\ items' = f.items
        /\ max_images_per_row' = update_max_images_per_row(items', f.max_images_per_row)
        /\ current_item_id' = LoadedId(items')
    /\ selection' = IF tool = "legacy" THEN {} ELSE selection
    /\ UNCHANGED <<tool, dlgVars, envVars, exportVars, fitVars>>

(* ------------------------------ files ---------------------------------- *)
\* what a path names on disk
MissingFile == [exists |-> FALSE, decodable |-> FALSE, w |-> 0, h |-> 0]
CorruptFile == [exists |-> TRUE, decodable |-> FALSE, w |-> 0, h |-> 0]
ImageFile(w, h) == [exists |-> TRUE, decodable |-> TRUE, w |-> w, h |-> h]

\* the kinds of file the export specifications put behind the paths: missing,
\* undecodable, a landscape photo, a portrait photo, a one-pixel-wide strip
FileKinds == {MissingFile, CorruptFile, ImageFile(16, 9), ImageFile(3, 4),
              ImageFile(1, LongSide)}

\* the file behind path p: paths with odd names are of the first kind of the
\* pattern, paths with even names of the second
FileAt(p) == file_pattern[(p.name % 2) + 1]

(* ---------------------------- image fit -------------------------------- *)
\* Python evaluates the fit in double precision and truncates with int().  The
\* exact quotient falls short by one where the true value is an integer and the
\* rounded product lands just below it; these are all such cases (bound, w, h)
\* for w, h in 1..15 and 2000..2002 and the bounds the exports use.
FloatMulShort == {<<900, 13, 3>>, <<900, 13, 6>>, <<900, 13, 12>>,
                  <<1417, 15, 13>>, <<2834, 15, 13>>}
FloatDivShort == {<<1200, 11, 2002>>, <<1417, 11, 2002>>, <<4251, 11, 2002>>}

\* C5 mutant: the proportional size rounded up past the exact value
C5_TruncMulMutant(bound, w, h) == ((bound * w) \div h) + 1

\* C6 mutant: the proportional size rounded to nearest (halves up)
C6_TruncDivMutant(bound, w, h) == ((2 * bound * h) + w) \div (2 * w)

\* python: int(bound * r) with r = w / h
TruncMul(bound, w, h) ==
    ((bound * w) \div h) - (IF <<bound, w, h>> \in FloatMulShort THEN 1 ELSE 0)

\* python: int(bound / r) with r = w / h
TruncDiv(bound, w, h) ==
    ((bound * h) \div w) - (IF <<bound, w, h>> \in FloatDivShort THEN 1 ELSE 0)

\* _export_excel_file: target_w, target_h = 1200, 900
ExcelTargetW == 1200
ExcelTargetH == 900

\* r = img.width / img.height; if r > target_w/target_h: width binds, else height
ExcelFit(w, h) ==
    IF w * ExcelTargetH > ExcelTargetW * h
    THEN [w |-> ExcelTargetW, h |-> TruncDiv(ExcelTargetW, w, h)]
    ELSE [w |-> TruncMul(ExcelTargetH, w, h), h |-> ExcelTargetH]

\* int(max_width*10) for 150*mm, 100*mm, 70*mm, 50*mm with mm = 72/25.4 points
PdfSingleW == 4251
PdfSingleH == 2834
PdfTwoColPx == 1984
PdfThreeColPx == 1417

\* _process_pdf_image: if img.width/max_w_px > img.height/max_h_px: width binds
PdfFit(w, h, max_w_px, max_h_px) ==
    IF w * max_h_px > h * max_w_px
    THEN [w |-> max_w_px, h |-> TruncDiv(max_w_px, w, h)]
    ELSE [w |-> TruncMul(max_h_px, w, h), h |-> max_h_px]

\* Image.resize raises ValueError unless both sizes are positive
Resizable(size) == size.w > 0 /\ size.h > 0

(* --------------------------- Excel export ------------------------------ *)
\* the characters chr(64) .. chr(122); chr(96), the grave accent, is spelled out
AsciiFrom64 == <<"@", "A", "B", "C", "D", "E", "F", "G", "H", "I", "J", "K", "L", "M",
                 "N", "O", "P", "Q", "R", "S", "T", "U", "V", "W", "X", "Y", "Z",
                 "[", "\\", "]", "^", "_", "grave",
                 "a", "b", "c", "d", "e", "f", "g", "h", "i", "j", "k", "l", "m",
                 "n", "o", "p", "q", "r", "s", "t", "u", "v", "w", "x", "y", "z">>

\* python: chr(code), for the codes the export computes
Chr(code) == AsciiFrom64[code - 63]

\* the spreadsheet column a one-character column reference denotes (openpyxl
\* reads letters case-insensitively); 0: not a column reference, openpyxl raises
ColumnIndex(ch) ==
    IF \E i \in 2..27 : AsciiFrom64[i] = ch
    THEN (CHOOSE i \in 2..27 : AsciiFrom64[i] = ch) - 1
    ELSE IF \E i \in 34..59 : AsciiFrom64[i] = ch
    THEN (CHOOSE i \in 34..59 : AsciiFrom64[i] = ch) - 33
    ELSE 0

\* scale = 0.32; row height = new_h * scale * 0.8, at least 40.  Sizes are kept
\* exactly: image sizes in 1/100, row heights in 1/10000 of a unit.
ExcelScalePct == 32
RowHeightPct == 80
MinRowHeight == 40

Cell(kind, text, n) == [kind |-> kind, text |-> text, n |-> n]

EmptySheet == [values |-> << >>, merged |-> {}, images |-> {}, heights |-> << >>,
               widths |-> << >>, borders |-> {}]

\* legacy: final_title = self.get_project_title() or the default report title;
\* modern: title = self.project_title_var.get() or the default
FinalTitle ==
    LET title == IF tool = "legacy" THEN get_project_title ELSE project_title
    IN IF title = "" THEN "Repair inspection report" ELSE title

\* C2 mutant: a sheet one image column short
C2_TotalColsMutant == 1 + max_images_per_row

\* total_cols = 2 + self.max_images_per_row; end_col = chr(64 + total_cols)
TotalCols == 2 + max_images_per_row
EndCol == Chr(64 + TotalCols)

\* rows 1, 2 and 4: title, subtitle, the merges A1:{end_col}1 and A2:{end_col}2,
\* and the headers (number, description, image 1..N)
ExcelHeader ==
    [EmptySheet EXCEPT
        !.values = (<<1, 1>> :> Cell("title", FinalTitle, 0))
                   @@ (<<2, 1>> :> Cell("subtitle", "generated at", 0))
                   @@ [c \in {4} \X (1..TotalCols) |->
                         IF c[2] = 1 THEN Cell("header", "No.", 0)
                         ELSE IF c[2] = 2 THEN Cell("header", "Description", 0)
                         ELSE Cell("header", "Image", c[2] - 2)],
        !.merged = {[row |-> r, min_col |-> 1, max_col |-> ColumnIndex(EndCol)] : r \in {1, 2}}]

\* C18 mutant: one artifact name per kind, written over by the next call
C18_ReusedArtifactMutant(prefix, id) == [prefix |-> prefix, uuid |-> 1]

\* C15 mutant: artifact names without the uuid, the same in every call
C15_ArtifactMutant(prefix, id) == [prefix |-> prefix, uuid |-> 0]

\* os.path.join(tempfile.gettempdir(), f"excel_img_{uuid.uuid4().hex}.png") and
\* the pdf_img_ counterpart: a name no earlier call produced
Artifact(prefix, id) == [prefix |-> prefix, uuid |-> id]

\* C14 mutant: an artifact is written but not added to the list
C14_TrackMutant(temp_list, t) == temp_list

\* temp_files.append(tpath), the statement after the artifact is saved
Track(temp_list, t) == Append(temp_list, t)

\* C21 mutant: the height of the image embedded last, not the maximum
C21_RowMaxHeightMutant(row_max_height, new_h) == new_h * ExcelScalePct * RowHeightPct

\* row_max_height = max(row_max_height, new_h * scale * 0.8)
RowMaxHeight(row_max_height, new_h) ==
    IF new_h * ExcelScalePct * RowHeightPct > row_max_height
    THEN new_h * ExcelScalePct * RowHeightPct ELSE row_max_height

\* one pass of the loop  for img_idx, img_path in enumerate(images[:max_images_per_row])
\* over the images j..n of the item in sheet row "row"; acc carries the sheet's
\* values and images, temp_files, the temp directory, the row height and the uuids
RECURSIVE ExcelImages(_, _, _, _, _)
ExcelImages(images, j, n, row, acc) ==
    IF j > n THEN acc
    ELSE LET p == images[j]
             f == FileAt(p)
             col == 3 + (j - 1)
             size == ExcelFit(f.w, f.h)
             tpath == Artifact("excel_img", acc.uuid)
             next ==
                IF ~f.exists
                THEN [acc EXCEPT !.values =
                        (<<row, col>> :> Cell("placeholder", "image file does not exist", Basename(p))) @@ @]
                ELSE IF ~f.decodable \/ ~Resizable(size) \/ ~tmp_writable
                THEN [acc EXCEPT !.values =
                        (<<row, col>> :> Cell("placeholder", "image processing failed", Basename(p))) @@ @]
                ELSE [acc EXCEPT
                        !.disk = @ \cup {tpath},
                        !.temp = Track(@, tpath),
                        !.uuid = @ + 1,
                        !.images = @ \cup {[anchor |-> <<row, ColumnIndex(Chr(64 + col))>>,
                                           file |-> tpath, source |-> p,
                                           w |-> size.w * ExcelScalePct,
                                           h |-> size.h * ExcelScalePct]},
                        !.height = RowMaxHeight(@, size.h)]
         IN ExcelImages(images, j + 1, n, row, next)

\* the slice images[:self.max_images_per_row]
SliceLen(images) == IF Len(images) < max_images_per_row THEN Len(images)
                    ELSE max_images_per_row

\* a file produced by wb.save(file_path) / doc.build(story)
Document(kind, content) == [kind |-> kind, content |-> content]

\* filedialog.asksaveasfilename: the path of the previous export again, or a
\* path that holds nothing yet
SavePaths == {destination, "none"}

\* C17 mutant: the success message whatever the write did
C17_OutcomeMutant(ok) == "success"

\* what the call tells the user once wb.save / doc.build has returned or raised:
\* showinfo after the write, showerror from the except clause
Outcome(ok) == IF ok THEN "success" ELSE "error"

\* export_excel up to the first data row: the guards, then title, merges, headers.
\* An invalid merge range makes openpyxl raise: the call ends with an error dialog.
export_excel ==
    /\ Interactive
    /\ items # <<>>
    /\ IF ColumnIndex(EndCol) = 0
       THEN /\ pc' = "done"
            /\ report' = Append(report, "error")
            /\ UNCHANGED <<cur, sheet, temp_files>>
       ELSE /\ pc' = "excel_rows"
            /\ cur' = 1
            /\ sheet' = ExcelHeader
            /\ temp_files' = <<>>
            /\ UNCHANGED report
    /\ project_title' = TitleRead
    /\ UNCHANGED <<tool, items, current_item_id, max_images_per_row, selection>>
    /\ destination' \in SavePaths
    /\ UNCHANGED <<dlgVars, envVars, story, tmp_dir, timers, next_uuid, written, fitVars>>

\* one iteration of  for row_idx, item in enumerate(self.items, 5)
excel_row ==
    /\ pc = "excel_rows" /\ cur <= Len(items)
    /\ LET row == cur + 4
           item == items[cur]
           start == [values |-> (<<row, 1>> :> Cell("number", "", row - 4))
                                @@ (<<row, 2>> :> Cell("description", "", item.description))
                                @@ sheet.values,
                     images |-> sheet.images, temp |-> temp_files, disk |-> tmp_dir,
                     height |-> MinRowHeight * 10000, uuid |-> next_uuid]
           done == ExcelImages(item.images, 1, SliceLen(item.images), row, start)
       IN /\ sheet' = [sheet EXCEPT !.values = done.values, !.images = done.images,
                                    !.heights = (row :> done.height) @@ @]
          /\ temp_files' = done.temp
          /\ tmp_dir' = done.disk
          /\ next_uuid' = done.uuid
    /\ cur' = cur + 1
    /\ UNCHANGED <<projVars, dlgVars, envVars, pc, story, timers, destination, written, report, fitVars>>

\* column widths and borders, as the loop's exit path applies them
ExcelFinished ==
    [sheet EXCEPT
        !.widths = ("A" :> 8) @@ ("B" :> 45)
                   @@ [ch \in {Chr(67 + i) : i \in 0..(max_images_per_row - 1)} |-> 52],
        !.borders = (4..(Len(items) + 4)) \X (1..TotalCols)]

\* after(5000, cleanup) / atexit.register(cleanup): a callback holding the list
Cleanup(kind, files) == [kind |-> kind, files |-> files]

\* legacy: the finally clause schedules the cleanup whether wb.save raised or not;
\* modern: self.after(5000, ...) follows wb.save inside the try
ExcelCleanups(saved) ==
    IF tool = "legacy" \/ saved THEN {Cleanup("after", temp_files)} ELSE {}

\* widths, borders, wb.save(file_path), the cleanup timer, the user's message
excel_finish ==
    /\ pc = "excel_rows" /\ cur > Len(items)
    /\ sheet' = ExcelFinished
    /\ \E saved \in BOOLEAN :
        /\ destination' = IF saved THEN "xlsx" ELSE destination
        /\ written' = IF saved THEN Append(written, Document("xlsx", ExcelFinished))
                       ELSE written
        /\ timers' = timers \cup ExcelCleanups(saved)
        /\ report' = Append(report, Outcome(saved))
    /\ pc' = "done"
    /\ UNCHANGED <<projVars, dlgVars, envVars, cur, story, temp_files, tmp_dir,
                   next_uuid, fitVars>>

\* C12 mutant: callbacks served while an export handler is still running
C12_EventLoopAlways == TRUE

\* timers and exit handlers are served by the event loop only: an export handler
\* runs to its end inside one callback and calls nothing but update_idletasks,
\* so none of them runs before the handler has reached its message box
EventLoopRuns == pc \in {"idle", "done"}

\* a scheduled after() cleanup runs from the event loop: os.unlink of each file
\* that still exists
run_cleanup ==
    /\ EventLoopRuns
    /\ \E t \in timers :
        /\ t.kind = "after"
        /\ tmp_dir' = tmp_dir \ Range(t.files)
        /\ timers' = timers \ {t}
    /\ UNCHANGED <<projVars, dlgVars, envVars, pc, cur, sheet, story, temp_files,
                   next_uuid, destination, written, report, fitVars>>

(* ---------------------------- PDF export ------------------------------- *)
\* flowables of the reportlab story
Paragraph(style, text, n, description) ==
    [type |-> "Paragraph", style |-> style, text |-> text, n |-> n,
     description |-> description]
Spacer(height) == [type |-> "Spacer", height |-> height]
PageBreak == [type |-> "PageBreak"]
Table(rows, col_widths, unit) ==
    [type |-> "Table", rows |-> rows, col_widths |-> col_widths, unit |-> unit]
KeepTogether(content) == [type |-> "KeepTogether", content |-> content]
NoElement == [type |-> "None"]

\* table cells: RL_Image(t, width, height, kind='proportional') and the string ""
ImageCell(t, p, size, box_w, box_h) ==
    [kind |-> "image", file |-> t, source |-> p, w |-> size.w, h |-> size.h,
     box_w |-> box_w, box_h |-> box_h]
EmptyCell == [kind |-> "empty"]

\* C4 mutant: two columns whatever the image count
C4_PdfColsMutant(n) == 2

\* cols = 2 if len(images) <= 4 else 3
PdfCols(n) == IF n <= 4 THEN 2 ELSE 3
\* size = 70*mm if cols==2 else 50*mm, in mm and in pixels of _process_pdf_image
PdfCellMm(cols) == IF cols = 2 THEN 70 ELSE 50
PdfCellPx(cols) == IF cols = 2 THEN PdfTwoColPx ELSE PdfThreeColPx
\* col_w = 85*mm if cols==2 else 56*mm
PdfColWidthMm(cols) == IF cols = 2 THEN 85 ELSE 56

\* _process_pdf_image: open, fit, resize, save under a fresh name, track it;
\* any exception gives None (ok = FALSE)
process_pdf_image(p, acc, max_w_px, max_h_px) ==
    LET f == FileAt(p)
        size == PdfFit(f.w, f.h, max_w_px, max_h_px)
        t == Artifact("pdf_img", acc.uuid)
    IN IF ~f.decodable \/ ~Resizable(size) \/ ~tmp_writable
       THEN [acc EXCEPT !.ok = FALSE]
       ELSE [acc EXCEPT !.ok = TRUE, !.t = t, !.size = size,
                        !.disk = @ \cup {t}, !.temp = Track(@, t), !.uuid = @ + 1]

\* while len(row) < cols: row.append("")
RECURSIVE PadRow(_, _)
PadRow(row, cols) == IF Len(row) < cols THEN PadRow(Append(row, EmptyCell), cols) ELSE row

\* C26 mutant: an image that is missing or fails gets no cell
C26_RowWithMutant(row, ok, img) == IF ok THEN Append(row, img) ELSE row

\* row.append(RL_Image(t, ...) if t else "") / row.append("")
RowWith(row, ok, img) == Append(row, IF ok THEN img ELSE EmptyCell)

\* the loop  for i, p in enumerate(images)  of the multi-image branch
RECURSIVE PdfRows(_, _, _, _, _, _)
PdfRows(images, i, cols, row, rows, acc) ==
    IF i > Len(images) THEN [rows |-> rows, acc |-> acc]
    ELSE LET p == images[i]
             there == FileAt(p).exists
             r == IF there THEN process_pdf_image(p, acc, PdfCellPx(cols), PdfCellPx(cols))
                  ELSE acc
             row1 == RowWith(row, there /\ r.ok,
                             ImageCell(r.t, p, r.size, PdfCellMm(cols), PdfCellMm(cols)))
         IN IF Len(row1) >= cols \/ i = Len(images)
            THEN PdfRows(images, i + 1, cols, <<>>, Append(rows, PadRow(row1, cols)), r)
            ELSE PdfRows(images, i + 1, cols, row1, rows, r)

\* _create_pdf_images: the element for an item's images, or None
create_pdf_images(images, acc) ==
    IF Len(images) = 1
    THEN LET p == images[1]
             r == IF FileAt(p).exists
                  THEN process_pdf_image(p, acc, PdfSingleW, PdfSingleH) ELSE acc
         IN IF FileAt(p).exists /\ r.ok
            THEN [elem |-> Table(<< <<ImageCell(r.t, p, r.size, 150, 100)>> >>, <<170>>, "mm"),
                  acc |-> r]
            ELSE [elem |-> NoElement, acc |-> r]
    ELSE LET cols == PdfCols(Len(images))
             g == PdfRows(images, 1, cols, <<>>, <<>>, acc)
         IN IF g.rows # <<>>
            THEN [elem |-> Table(g.rows, [c \in 1..cols |-> PdfColWidthMm(cols)], "mm"),
                  acc |-> g.acc]
            ELSE [elem |-> NoElement, acc |-> g.acc]

\* title, subtitle and Spacer(1, 30)
PdfHeader == <<Paragraph("ChineseTitle", FinalTitle, 0, 0),
               Paragraph("Subtitle", "generated at", 0, 0), Spacer(30)>>

\* _create_text_only_pdf_table: header row, then one row (number, description)
\* per item; colWidths 0.8 and 6.5 inch
create_text_only_pdf_table ==
    Table(<< <<Paragraph("Chinese", "No.", 0, 0), Paragraph("Chinese", "Description", 0, 0)>> >>
          \o [i \in 1..Len(items) |->
                <<Paragraph("Chinese", "", i, 0),
                  Paragraph("Chinese", "", 0, items[i].description)>>],
          <<8, 65>>, "inch/10")

\* has_images = any(it.get('images', []) for it in self.items)
has_images == \E i \in 1..Len(items) : items[i].images # <<>>

\* the legacy export lays out text-only projects as one table; the modern one has
\* no such branch
TextOnly == tool = "legacy" /\ ~has_images

\* export_pdf up to the first item: guards and header; a legacy project without
\* images is finished here (table, doc.build, message)
export_pdf ==
    /\ Interactive
    /\ items # <<>>
    /\ IF TextOnly
       THEN /\ story' = Append(PdfHeader, create_text_only_pdf_table)
            /\ pc' = "done"
            /\ \E built \in BOOLEAN :
                /\ destination' \in IF built THEN {"pdf"} ELSE SavePaths
                /\ written' = IF built
                               THEN Append(written,
                                      Document("pdf", Append(PdfHeader, create_text_only_pdf_table)))
                               ELSE written
                /\ report' = Append(report, Outcome(built))
            /\ UNCHANGED cur
       ELSE /\ story' = PdfHeader
            /\ pc' = "pdf_items"
            /\ cur' = 1
            /\ destination' \in SavePaths
            /\ UNCHANGED <<report, written>>
    /\ temp_files' = <<>>
    /\ project_title' = TitleRead
    /\ UNCHANGED <<tool, items, current_item_id, max_images_per_row, selection>>
    /\ UNCHANGED <<dlgVars, envVars, sheet, tmp_dir, timers, next_uuid, fitVars>>

\* title and image element (or the fallback paragraph) of item idx
ItemContent(idx, made) ==
    <<Paragraph("ItemTitle", "", idx, items[idx].description),
      IF items[idx].images = <<>> THEN Paragraph("Chinese", "no images", 0, 0)
      ELSE IF made.elem = NoElement THEN Paragraph("Chinese", "image load failed", 0, 0)
      ELSE made.elem>>

\* legacy: what follows item idx (1-based) when it is not the last one
Separator(idx) ==
    IF Len(items[idx + 1].images) > 4 \/ idx % 3 = 0 THEN PageBreak ELSE Spacer(20)

\* legacy _create_optimized_pdf_layout, one iteration for item idx
LegacyItemFlowables(idx, made) ==
    (IF idx = 1 THEN ItemContent(idx, made)
     ELSE <<Spacer(15)>> \o (IF Len(items[idx].images) <= 3
                             THEN <<KeepTogether(ItemContent(idx, made))>>
                             ELSE ItemContent(idx, made)))
    \o (IF idx < Len(items) THEN <<Separator(idx)>> ELSE <<>>)

\* modern _export_pdf_file, one iteration for item idx
ModernItemFlowables(idx, made) ==
    ItemContent(idx, made) \o (IF idx < Len(items) THEN <<Spacer(20)>> ELSE <<>>)

\* one iteration of  for idx, it in enumerate(self.items)
pdf_item ==
    /\ pc = "pdf_items" /\ cur <= Len(items)
    /\ LET start == [temp |-> temp_files, disk |-> tmp_dir, uuid |-> next_uuid,
                     ok |-> FALSE, t |-> Artifact("pdf_img", 0), size |-> [w |-> 0, h |-> 0]]
           made == IF items[cur].images # <<>> THEN create_pdf_images(items[cur].images, start)
                   ELSE [elem |-> NoElement, acc |-> start]
       IN /\ story' = story \o (IF tool = "legacy" THEN LegacyItemFlowables(cur, made)
                                ELSE ModernItemFlowables(cur, made))
          /\ temp_files' = made.acc.temp
          /\ tmp_dir' = made.acc.disk
          /\ next_uuid' = made.acc.uuid
    /\ cur' = cur + 1
    /\ UNCHANGED <<projVars, dlgVars, envVars, pc, sheet, timers, destination, written, report, fitVars>>

\* legacy: the layout's finally clause registers the cleanup with atexit before
\* doc.build; modern: self.after(5000, ...) follows a successful doc.build
PdfCleanups(built) ==
    IF tool = "legacy" THEN {Cleanup("atexit", temp_files)}
    ELSE IF built THEN {Cleanup("after", temp_files)} ELSE {}

\* the end of the loop, doc.build(story), the cleanup registration, the message
pdf_finish ==
    /\ pc = "pdf_items" /\ cur > Len(items)
    /\ \E built \in BOOLEAN :
        /\ destination' = IF built THEN "pdf" ELSE destination
        /\ written' = IF built THEN Append(written, Document("pdf", story)) ELSE written
        /\ timers' = timers \cup PdfCleanups(built)
        /\ report' = Append(report, Outcome(built))
    /\ pc' = "done"
    /\ UNCHANGED <<projVars, dlgVars, envVars, cur, sheet, story, temp_files, tmp_dir,
                   next_uuid, fitVars>>

\* export_excel / export_pdf on an empty project: a warning and nothing else
export_nothing ==
    /\ Interactive
    /\ items = <<>>
    /\ report' = Append(report, "warning")
    /\ pc' = "done"
    /\ UNCHANGED <<projVars, dlgVars, envVars, cur, sheet, story, temp_files, tmp_dir,
                   timers, next_uuid, destination, written, fitVars>>

\* export_excel / export_pdf given up before any document is started: the user
\* answers no to the default-title prompt (asked when the stripped title is
\* empty) or closes asksaveasfilename without a path. The legacy tool has by then
\* called get_project_title, which stores the stripped title.
export_cancelled ==
    /\ Interactive
    /\ items # <<>>
    /\ \E answer \in {"no title", "no path"} :
          answer = "no title" => Strip(project_title) = ""
    /\ project_title' = TitleRead
    /\ UNCHANGED <<tool, items, current_item_id, max_images_per_row, selection>>
    /\ UNCHANGED <<dlgVars, envVars, exportVars, fitVars>>

\* the interpreter exits: the atexit callbacks run, pending after() timers are lost
quit ==
    /\ EventLoopRuns
    /\ tmp_dir' = tmp_dir \ UNION {Range(t.files) : t \in {u \in timers : u.kind = "atexit"}}
    /\ timers' = {}
    /\ pc' = "exited"
    /\ UNCHANGED <<projVars, dlgVars, envVars, cur, sheet, story, temp_files,
                   next_uuid, destination, written, report, fitVars>>

\* the user closes the message box that ends an export call: the handler returns
dismiss ==
    /\ pc = "done"
    /\ Len(report) < MaxExports
    /\ pc' = "idle"
    /\ UNCHANGED <<projVars, dlgVars, envVars, cur, sheet, story, temp_files, tmp_dir,
                   timers, next_uuid, destination, written, report, fitVars>>

(* --------------------------- fit in isolation -------------------------- *)
Dims == (1..MaxDim) \cup {LongSide}
FitTargets == {"excel", "pdf_single", "pdf_two", "pdf_three"}

\* the box each call site fits into
BoxOf(target) ==
    IF target = "excel" THEN [w |-> ExcelTargetW, h |-> ExcelTargetH]
    ELSE IF target = "pdf_single" THEN [w |-> PdfSingleW, h |-> PdfSingleH]
    ELSE IF target = "pdf_two" THEN [w |-> PdfTwoColPx, h |-> PdfTwoColPx]
    ELSE [w |-> PdfThreeColPx, h |-> PdfThreeColPx]

NotFitted == [done |-> FALSE, w |-> 0, h |-> 0]

\* the fit of _export_excel_file applied to the image fit_in
fit_excel ==
    /\ fit_in.target = "excel" /\ ~fit_out.done
    /\ fit_out' = [done |-> TRUE, w |-> ExcelFit(fit_in.w, fit_in.h).w,
                   h |-> ExcelFit(fit_in.w, fit_in.h).h]
    /\ UNCHANGED <<projVars, dlgVars, envVars, exportVars, fit_in>>

\* the fit of _process_pdf_image applied to the image fit_in
fit_pdf ==
    /\ fit_in.target # "excel" /\ ~fit_out.done
    /\ LET box == BoxOf(fit_in.target)
           size == PdfFit(fit_in.w, fit_in.h, box.w, box.h)
       IN fit_out' = [done |-> TRUE, w |-> size.w, h |-> size.h]
    /\ UNCHANGED <<projVars, dlgVars, envVars, exportVars, fit_in>>

(* --------------------------- specifications ---------------------------- *)
IdleExport ==
    /\ pc = "idle" /\ cur = 0
    /\ sheet = EmptySheet /\ story = <<>>
    /\ temp_files = <<>> /\ tmp_dir = {} /\ timers = {}
    /\ next_uuid = 1
    /\ destination = "none" /\ written = <<>> /\ report = <<>>

NoDialogs == assignments = <<>> /\ dialogs = <<>>

NoFit == fit_in = [w |-> 1, h |-> 1, target |-> "none"] /\ fit_out = NotFitted

\* __init__: no items, no title, max_images_per_row = 1, nothing selected
Init ==
    /\ tool \in Tools
    /\ project_title = ""
    /\ items = <<>>
    /\ current_item_id = 0
    /\ max_images_per_row = 1
    /\ selection = {}
    /\ NoDialogs
    /\ project_file = {}
    /\ file_pattern = <<ImageFile(3, 4), ImageFile(16, 9)>>
    /\ tmp_writable = TRUE
    /\ IdleExport
    /\ NoFit

NextEdit ==
    \/ add_item
    \/ on_item_select
    \/ select_item
    \/ delete_selected_item
    \/ delete_item
    \/ move_item_up
    \/ move_item_down
    \/ on_description_change
    \/ add_images
    \/ delete_image
    \/ clear_images
    \/ on_drop_single
    \/ refresh_display
    \/ set_title
    \/ new_project
    \/ open_project

\* editing: every behaviour of the item, image and project handlers from a
\* fresh start
Spec == Init /\ [][NextEdit]_vars

NextDialog ==
    \/ add_item
    \/ on_item_select
    \/ select_item
    \/ delete_selected_item
    \/ delete_item
    \/ add_images
    \/ on_drop_single
    \/ on_drop_many
    \/ batch_add_images
    \/ combo_selected
    \/ quick_assign
    \/ execute
    \/ cancel_dialog

\* batch assignment: the dialogs, with the item handlers that change what the
\* dialogs refer to
SpecDialog == Init /\ [][NextDialog]_vars

\* a project as editing leaves it, about to be exported
ProjectOf(counts) ==
    /\ items = ItemsOfCounts(counts)
    /\ current_item_id = Len(counts)
    /\ max_images_per_row = update_max_images_per_row(ItemsOfCounts(counts), 1)
    /\ selection = {}
    /\ NoDialogs

RECURSIVE Total(_)
Total(c) == IF c = <<>> THEN 0 ELSE Head(c) + Total(Tail(c))

\* the projects of the export specifications: up to MaxExportItems items of up
\* to MaxExportImages images, MaxExportTotal images in all
ExportCounts ==
    {c \in CountLists(MaxExportItems, MaxExportImages) : Total(c) <= MaxExportTotal}

InitExport ==
    /\ tool \in Tools
    /\ project_title \in Titles
    /\ \E c \in ExportCounts : ProjectOf(c)
    /\ project_file = {}
    /\ file_pattern \in FileKinds \X FileKinds
    /\ tmp_writable \in BOOLEAN
    /\ IdleExport
    /\ NoFit

NextExcel ==
    \/ export_excel
    \/ excel_row
    \/ excel_finish
    \/ export_nothing
    \/ run_cleanup
    \/ quit

\* one Excel export call on a project, step by step, then cleanup and exit
SpecExcel == InitExport /\ [][NextExcel]_vars

NextPdf ==
    \/ export_pdf
    \/ pdf_item
    \/ pdf_finish
    \/ export_nothing
    \/ run_cleanup
    \/ quit

\* one PDF export call on a project, step by step, then cleanup and exit
SpecPdf == InitExport /\ [][NextPdf]_vars

InitWide ==
    /\ tool \in Tools
    /\ project_title \in Titles
    /\ \E n \in 1..MaxWideImages : ProjectOf(<<n>>)
    /\ project_file = {}
    /\ file_pattern \in {<<ImageFile(3, 4), ImageFile(16, 9)>>, <<MissingFile, ImageFile(3, 4)>>}
    /\ tmp_writable \in BOOLEAN
    /\ IdleExport
    /\ NoFit

NextWide ==
    \/ export_excel
    \/ excel_row
    \/ excel_finish
    \/ run_cleanup
    \/ quit

\* Excel export of one item that holds many images
SpecWide == InitWide /\ [][NextWide]_vars

InitFit ==
    /\ tool \in Tools
    /\ project_title = ""
    /\ ProjectOf(<<>>)
    /\ project_file = {}
    /\ file_pattern = <<ImageFile(3, 4), ImageFile(16, 9)>>
    /\ tmp_writable = TRUE
    /\ IdleExport
    /\ fit_in \in [w : Dims, h : Dims, target : FitTargets]
    /\ fit_out = NotFitted

NextFit ==
    \/ fit_excel
    \/ fit_pdf

\* the two fit computations on every image size of the bounds
SpecFit == InitFit /\ [][NextFit]_vars

\* the projects of the repeated-export specification
RepeatCounts == CountLists(MaxRepeatItems, MaxRepeatImages)

InitRepeat ==
    /\ tool \in Tools
    /\ project_title \in Titles \cup {PaddedTitle}
    /\ \E c \in RepeatCounts : ProjectOf(c)
    /\ project_file = {}
    /\ file_pattern \in {<<ImageFile(3, 4), ImageFile(16, 9)>>,
                         <<MissingFile, ImageFile(3, 4)>>,
                         <<ImageFile(16, 9), CorruptFile>>}
    /\ tmp_writable \in BOOLEAN
    /\ IdleExport
    /\ NoFit

NextRepeat ==
    \/ export_excel
    \/ excel_row
    \/ excel_finish
    \/ export_pdf
    \/ pdf_item
    \/ pdf_finish
    \/ export_nothing
    \/ export_cancelled
    \/ dismiss
    \/ run_cleanup
    \/ quit

\* export calls one after another on the same project, Excel and PDF in any
\* order, with the cleanups of earlier calls still pending
SpecRepeat == InitRepeat /\ [][NextRepeat]_vars


\* project files: items are added, deleted and moved, the project is saved and
\* opened, and in the end it is exported once
NextFile ==
    \/ add_item
    \/ on_item_select
    \/ select_item
    \/ delete_selected_item
    \/ delete_item
    \/ move_item_up
    \/ move_item_down
    \/ set_title
    \/ new_project
    \/ save_project
    \/ open_project
    \/ export_excel
    \/ excel_row
    \/ excel_finish
    \/ export_pdf
    \/ pdf_item
    \/ pdf_finish
    \/ export_nothing

SpecFile == Init /\ [][NextFile]_vars

(* ------------------------------- claims -------------------------------- *)
\* C1 (as stated; refuted under Spec): after any sequence of edits
\* max_images_per_row is the largest image count of any item, or 1 when the item
\* list is empty or no item holds an image.
C1_MaxImagesPerRow ==
    max_images_per_row =
        IF items = <<>> THEN 1
        ELSE IF \A i \in DOMAIN items : items[i].images = <<>> THEN 1
        ELSE CHOOSE m \in {Len(items[i].images) : i \in DOMAIN items} :
                \A i \in DOMAIN items : Len(items[i].images) <= m

\* C1, the failure: the last item, which held two images, was deleted and
\* max_images_per_row still counts them
C1_StaleAfterLastDelete ==
    /\ items = <<>> /\ current_item_id >= 1
    /\ max_images_per_row = 2

\* C2: in a finished Excel sheet every item row has max_images_per_row image
\* columns: the item's k images (or their placeholders) occupy columns 3..k+2 in
\* image order, columns k+3..N+2 are blank, nothing lies right of column N+2, the
\* header names N image columns, and exactly the cells of rows 4..len(items)+4,
\* columns 1..N+2 are bordered.
C2_UniformImageColumns ==
    (pc = "done" /\ sheet.borders # {}) =>
        LET N == max_images_per_row
        IN /\ \A i \in DOMAIN items :
                LET r == i + 4
                    k == Len(items[i].images)
                IN /\ k <= N
                   /\ \A j \in 1..N :
                        LET c == <<r, j + 2>>
                            here == {img \in sheet.images : img.anchor = c}
                        IN IF j <= k
                           THEN \/ /\ \E img \in here : img.source = items[i].images[j]
                                   /\ c \notin DOMAIN sheet.values
                                \/ /\ here = {}
                                   /\ c \in DOMAIN sheet.values
                                   /\ sheet.values[c].kind = "placeholder"
                                   /\ sheet.values[c].n = items[i].images[j].name
                           ELSE here = {} /\ c \notin DOMAIN sheet.values
           /\ \A c \in DOMAIN sheet.values : c[2] <= N + 2
           /\ \A img \in sheet.images : img.anchor[2] <= N + 2
           /\ \A j \in 1..N : /\ <<4, j + 2>> \in DOMAIN sheet.values
                              /\ sheet.values[<<4, j + 2>>].kind = "header"
                              /\ sheet.values[<<4, j + 2>>].n = j
           /\ sheet.borders = (4..(Len(items) + 4)) \X (1..(N + 2))

\* C2 witness: a written sheet of a project with an item without images and an
\* item with fewer images than the widest one
C2_Witness ==
    /\ pc = "done" /\ sheet.borders # {} /\ destination = "xlsx"
    /\ max_images_per_row >= 3
    /\ \E i, i2 \in DOMAIN items :
        /\ items[i].images = <<>>
        /\ Len(items[i2].images) \in 1..(max_images_per_row - 1)
        /\ \E img \in sheet.images : img.anchor = <<i2 + 4, 3>>

\* C3 (as stated; refuted under SpecWide): once the Excel export has written the
\* title rows, rows 1 and 2 are merged across exactly columns 1..2+N, and the k-th
\* image (0-based) of an item is anchored at column 3+k of the item's row.
C3_MergeAndAnchors ==
    (pc \in {"excel_rows", "done"} /\ items # <<>>) =>
        /\ sheet.merged = {[row |-> r, min_col |-> 1, max_col |-> 2 + max_images_per_row] :
                              r \in {1, 2}}
        /\ \A img \in sheet.images :
              /\ img.anchor[1] - 4 \in DOMAIN items
              /\ \E j \in DOMAIN items[img.anchor[1] - 4].images :
                    /\ items[img.anchor[1] - 4].images[j] = img.source
                    /\ img.anchor[2] = 3 + (j - 1)

\* C3 witness of the failure: the export of a 25-image row ended with an error
\* and an unmerged sheet
C3_WideExportFails ==
    /\ pc = "done" /\ max_images_per_row >= 25
    /\ report = <<"error">> /\ sheet.merged = {}

\* C4: the image grid the PDF export lays out for an item with n >= 1 images has
\* 1 column for n = 1, 2 columns for 2 <= n <= 4, 3 columns for n >= 5, and
\* ceil(n / columns) rows of exactly that many cells, the cells after the n-th
\* being blank; an item with two or more images always gets its grid.
C4_GridShape ==
    (pc = "pdf_items" /\ cur > 1) =>
        LET n == Len(items[cur - 1].images)
            k == IF story[Len(story)].type \in {"Spacer", "PageBreak"}
                 THEN Len(story) - 1 ELSE Len(story)
            e == IF story[k].type = "KeepTogether" THEN story[k].content[2] ELSE story[k]
            columns == IF n = 1 THEN 1 ELSE IF n <= 4 THEN 2 ELSE 3
        IN /\ n >= 2 => e.type = "Table"
           /\ e.type = "Table" =>
                /\ n >= 1
                /\ Len(e.rows) = (n + columns - 1) \div columns
                /\ Len(e.col_widths) = columns
                /\ \A r \in DOMAIN e.rows :
                     /\ Len(e.rows[r]) = columns
                     /\ \A c \in 1..columns :
                          (r - 1) * columns + c > n => e.rows[r][c].kind = "empty"

\* C4 witness: an item with three images laid out as two rows of two cells, the
\* fourth cell blank
C4_Witness ==
    /\ pc = "pdf_items" /\ cur > 1
    /\ Len(items[cur - 1].images) = 3
    /\ LET k == IF story[Len(story)].type \in {"Spacer", "PageBreak"}
                THEN Len(story) - 1 ELSE Len(story)
           e == IF story[k].type = "KeepTogether" THEN story[k].content[2] ELSE story[k]
       IN /\ e.type = "Table" /\ Len(e.rows) = 2
          /\ e.rows[2][1].kind = "image" /\ e.rows[2][2].kind = "empty"

\* C5: the size either fit computes lies within its box, and one dimension
\* equals its bound (Excel box 1200x900; PDF boxes of the single image, the
\* two-column and the three-column grid).
C5_FitWithinBox ==
    fit_out.done =>
        LET maxW == IF fit_in.target = "excel" THEN 1200
                    ELSE IF fit_in.target = "pdf_single" THEN 4251
                    ELSE IF fit_in.target = "pdf_two" THEN 1984 ELSE 1417
            maxH == IF fit_in.target = "excel" THEN 900
                    ELSE IF fit_in.target = "pdf_single" THEN 2834
                    ELSE IF fit_in.target = "pdf_two" THEN 1984 ELSE 1417
        IN /\ fit_out.w <= maxW
           /\ fit_out.h <= maxH
           /\ fit_out.w = maxW \/ fit_out.h = maxH

\* C5 witness: a wide image fitted into the single-image PDF box, width binding
C5_Witness ==
    /\ fit_out.done /\ fit_in.target = "pdf_single"
    /\ fit_in.w > fit_in.h
    /\ fit_out.w = 4251 /\ fit_out.h < 2834

\* C6 (as stated; refuted under SpecFit): the non-binding fitted dimension is the
\* exact proportional size rounded to nearest: round(maxHeight * w / h) when
\* height binds, round(maxWidth * h / w) when width binds.
C6_RoundToNearest ==
    fit_out.done =>
        LET box == BoxOf(fit_in.target)
            w == fit_in.w
            h == fit_in.h
            \* python round(a / b): to nearest, halves to even
            round(a, b) == IF 2 * (a % b) < b THEN a \div b
                           ELSE IF 2 * (a % b) > b THEN (a \div b) + 1
                           ELSE IF (a \div b) % 2 = 0 THEN a \div b ELSE (a \div b) + 1
        IN IF fit_out.h = box.h /\ w * box.h <= box.w * h
           THEN fit_out.w = round(box.h * w, h)
           ELSE fit_out.h = round(box.w * h, w)

\* C6 (amended): the non-binding fitted dimension is the exact proportional size
\* cut down to an integer, never rounded up: it is at most the exact value and
\* less than one below it when the exact value is fractional (its floor), and the
\* exact value or one less when the exact value is an integer.
C6_TruncatedDown ==
    fit_out.done =>
        LET box == BoxOf(fit_in.target)
            w == fit_in.w
            h == fit_in.h
            down(x, a, b) == /\ x * b <= a
                             /\ a <= (x + 1) * b
                             /\ (a % b # 0 => x = a \div b)
        IN IF w * box.h <= box.w * h
           THEN fit_out.h = box.h /\ down(fit_out.w, box.h * w, h)
           ELSE fit_out.w = box.w /\ down(fit_out.h, box.w * h, w)

\* C6 witness: a 1x7 image in the Excel box gets width 128, the exact 128.57
\* cut down, where rounding would give 129
C6_Witness ==
    /\ fit_out.done /\ fit_in = [w |-> 1, h |-> 7, target |-> "excel"]
    /\ fit_out.h = 900 /\ fit_out.w = 128

\* C7: an Excel export runs to wb.save whatever images fail, and reports success
\* exactly when the save wrote the document; in the sheet every image whose file
\* is missing has the placeholder "image file does not exist" with its base name
\* in its own cell, every image whose load, resize or save raises has the
\* placeholder "image processing failed" with its base name, and every other
\* image of the same and of later rows is embedded at its cell.
C7_ExcelPlaceholders ==
    (pc = "done" /\ items # <<>>) =>
        /\ sheet.borders # {}
        /\ Len(report) = 1 /\ report[1] \in {"success", "error"}
        /\ report[1] = "success" <=> destination = "xlsx"
        /\ \A i \in DOMAIN items : \A j \in DOMAIN items[i].images :
              LET img_path == items[i].images[j]
                  f == file_pattern[(img_path.name % 2) + 1]
                  c == <<i + 4, j + 2>>
                  here == {img \in sheet.images : img.anchor = c}
                  raises == \/ ~f.decodable
                            \/ ExcelFit(f.w, f.h).w < 1
                            \/ ExcelFit(f.w, f.h).h < 1
                            \/ ~tmp_writable
                  placeholder(reason) == /\ here = {}
                                         /\ c \in DOMAIN sheet.values
                                         /\ sheet.values[c].kind = "placeholder"
                                         /\ sheet.values[c].text = reason
                                         /\ sheet.values[c].n = img_path.name
              IN IF ~f.exists THEN placeholder("image file does not exist")
                 ELSE IF raises THEN placeholder("image processing failed")
                 ELSE /\ \E img \in here : img.source = img_path /\ img.file \in Range(temp_files)
                      /\ c \notin DOMAIN sheet.values

\* C7 witness: a written, successfully reported sheet whose first image cell
\* holds a missing-file placeholder, with an embedded image next to it and
\* another in the following row
C7_Witness ==
    /\ pc = "done" /\ destination = "xlsx" /\ report = <<"success">>
    /\ <<5, 3>> \in DOMAIN sheet.values
    /\ sheet.values[<<5, 3>>] = Cell("placeholder", "image file does not exist", 1)
    /\ \E img \in sheet.images : img.anchor = <<5, 4>>
    /\ \E img \in sheet.images : img.anchor = <<6, 4>>

\* C8 (as stated; refuted under SpecPdf): in the PDF layout of an item every
\* image that is missing or fails to process is shown by a placeholder text that
\* names the file, at the image's position: a paragraph for a single-image item,
\* the image's cell in a grid.
C8_PdfPlaceholders ==
    (pc = "pdf_items" /\ cur > 1) =>
        LET images == items[cur - 1].images
            n == Len(images)
            k == IF story[Len(story)].type \in {"Spacer", "PageBreak"}
                 THEN Len(story) - 1 ELSE Len(story)
            e == IF story[k].type = "KeepTogether" THEN story[k].content[2] ELSE story[k]
            px == IF n = 1 THEN <<4251, 2834>> ELSE IF n <= 4 THEN <<1984, 1984>>
                  ELSE <<1417, 1417>>
            failed(p) == LET f == file_pattern[(p.name % 2) + 1]
                         IN \/ ~f.exists \/ ~f.decodable \/ ~tmp_writable
                            \/ PdfFit(f.w, f.h, px[1], px[2]).w < 1
                            \/ PdfFit(f.w, f.h, px[1], px[2]).h < 1
        IN /\ (n = 1 /\ failed(images[1])) =>
                 e.type = "Paragraph" /\ e.text # "" /\ e.n = images[1].name
           /\ n >= 2 =>
                 /\ e.type = "Table"
                 /\ \A j \in 1..n :
                      failed(images[j]) =>
                         LET cols == Len(e.rows[1])
                             cell == e.rows[((j - 1) \div cols) + 1][((j - 1) % cols) + 1]
                         IN cell.kind = "placeholder"

\* C8, what the export does instead: the grid cell of a missing file is blank
C8_BlankCellForFailure ==
    /\ pc = "pdf_items" /\ cur = 2 /\ Len(items[1].images) = 2
    /\ ~file_pattern[2].exists
    /\ story[Len(story)].type # "Paragraph"
    /\ LET k == IF story[Len(story)].type \in {"Spacer", "PageBreak"}
                THEN Len(story) - 1 ELSE Len(story)
       IN story[k].type = "Table" /\ story[k].rows[1][1] = EmptyCell

\* C9 (as stated; refuted under SpecPdf): the PDF export of a non-empty project
\* without any image consists of the heading and the text-only table of
\* len(items)+1 rows, a header row and one row per item in list order, and the
\* text-only table appears in no export of a project that has an image.
C9_TextOnlyFallback ==
    (pc = "done" /\ items # <<>>) =>
        IF \A i \in DOMAIN items : items[i].images = <<>>
        THEN /\ Len(story) = 4
             /\ story[4].type = "Table"
             /\ Len(story[4].rows) = Len(items) + 1
             /\ \A i \in DOMAIN items :
                  /\ story[4].rows[i + 1][1].n = i
                  /\ story[4].rows[i + 1][2].description = items[i].description
        ELSE \A x \in DOMAIN story : story[x].type = "Table" => story[x].unit = "mm"

\* C9, what the modern export does instead: an image-free project comes out in
\* the per-item layout
C9_ModernHasNoFallback ==
    /\ pc = "done" /\ tool = "modern" /\ destination = "pdf"
    /\ Len(items) = 2 /\ \A i \in DOMAIN items : items[i].images = <<>>
    /\ \A x \in DOMAIN story : story[x].type # "Table"
    /\ Len(story) = 8

\* C10 (as stated; refuted under SpecPdf): in the per-item layout, after item i
\* (1-based) a page break follows exactly when item i+1 has more than 4 images or
\* i is a multiple of 3, otherwise a spacer; nothing follows the last item.
C10_PageBreaks ==
    (pc = "pdf_items" /\ cur > 1) =>
        LET i == cur - 1
            last == story[Len(story)]
        IN IF i < Len(items)
           THEN IF Len(items[i + 1].images) > 4 \/ i % 3 = 0
                THEN last.type = "PageBreak"
                ELSE last.type = "Spacer"
           ELSE last.type \notin {"PageBreak", "Spacer"}

\* C10, what the modern export does instead: a spacer before a five-image item
C10_ModernNeverBreaks ==
    /\ pc = "pdf_items" /\ tool = "modern" /\ cur = 2
    /\ Len(items) >= 2 /\ Len(items[2].images) = 5
    /\ story[Len(story)] = Spacer(20)

\* C11 (as stated; refuted under SpecPdf): in the per-item layout the section of
\* an item with at most 3 images (title plus image block or no-images paragraph)
\* is emitted as one keep-together unit whatever the item's position, and the
\* section of an item with 4 or more images as separate flowables.
C11_KeepTogether ==
    (pc = "pdf_items" /\ cur > 1) =>
        LET n == Len(items[cur - 1].images)
            k == IF story[Len(story)].type \in {"Spacer", "PageBreak"}
                 THEN Len(story) - 1 ELSE Len(story)
        IN IF n <= 3
           THEN /\ story[k].type = "KeepTogether"
                /\ Len(story[k].content) = 2
                /\ story[k].content[1].type = "Paragraph"
                /\ story[k].content[1].style = "ItemTitle"
                /\ story[k].content[1].n = cur - 1
           ELSE /\ story[k].type = "Table"
                /\ story[k - 1].type = "Paragraph"
                /\ story[k - 1].style = "ItemTitle"

\* C11, what the legacy export does instead: the first item's section, one image,
\* is emitted as two separate flowables
C11_FirstItemNotKept ==
    /\ pc = "pdf_items" /\ tool = "legacy" /\ cur = 2
    /\ Len(items[1].images) = 1
    /\ Len(story) >= 5
    /\ story[4].type = "Paragraph" /\ story[4].style = "ItemTitle"
    /\ story[5].type # "KeepTogether"
    /\ \A x \in DOMAIN story : story[x].type # "KeepTogether"

\* C12: no artifact file is deleted while an export call is building or writing
\* its document: files leave the temp directory only in steps taken after the
\* running handler has returned from its write (a timer or exit callback), and
\* every artifact the call has tracked is still there while the call runs and at
\* the moment its write returns.
C12_NoDeletionBeforeWrite ==
    [][ /\ (\E a \in tmp_dir : a \notin tmp_dir') => pc \in {"idle", "done"}
        /\ (pc' \in {"excel_rows", "pdf_items"}
               \/ (pc \in {"excel_rows", "pdf_items"} /\ pc' = "done"))
              => Range(temp_files') \subseteq tmp_dir' ]_vars

\* C12 witness: a second export call is creating artifacts while the cleanup of
\* the first call, whose artifacts still exist, is pending
C12_Witness ==
    /\ pc \in {"excel_rows", "pdf_items"}
    /\ temp_files # <<>>
    /\ \E t \in timers : /\ t.kind = "after" /\ t.files # <<>>
                         /\ Range(t.files) \subseteq tmp_dir
                         /\ Range(t.files) \cap Range(temp_files) = {}

\* C13 (as stated; refuted under SpecRepeat): once an export call has completed
\* or failed, every artifact file it created is covered by a cleanup that is
\* scheduled to run while the application keeps running (a pending timer), so
\* whenever no call is running each file in the temp directory awaits such a
\* cleanup.
C13_CleanupAlwaysScheduled ==
    pc \in {"idle", "done"} =>
        \A a \in tmp_dir :
            \E t \in timers : t.kind = "after" /\ a \in Range(t.files)

\* C13, what the modern export does instead: the write failed, the artifacts
\* are on disk and no cleanup is scheduled
C13_ModernLeakOnFailure ==
    /\ tool = "modern" /\ pc = "done"
    /\ report = <<"error">> /\ destination = "none"
    /\ temp_files # <<>> /\ Range(temp_files) \subseteq tmp_dir
    /\ timers = {}

\* C14: during an export call every artifact file the image processing writes
\* to the temp directory is appended to the call's temp_files, once, and nothing
\* else is; when the loop over the items ends, the tracked list is exactly the
\* set of artifact files the document's image cells refer to, one per
\* successfully processed image.
C14_ArtifactsTracked ==
    [][ LET running == {"excel_rows", "pdf_items"}
            before == IF pc \in running THEN temp_files ELSE <<>>
            created == tmp_dir' \ tmp_dir
            pdf_tables == {story'[i] : i \in {k \in 1..Len(story') : story'[k].type = "Table"}}
                          \cup {story'[i].content[2] :
                                  i \in {k \in 1..Len(story') :
                                            /\ story'[k].type = "KeepTogether"
                                            /\ story'[k].content[2].type = "Table"}}
            pdf_cells == UNION {UNION {Range(tb.rows[r]) : r \in 1..Len(tb.rows)} :
                                   tb \in {u \in pdf_tables : u.unit = "mm"}}
            pdf_images == {c \in pdf_cells : c.kind = "image"}
        IN /\ (pc \in running \/ pc' \in running) =>
                 /\ tmp_dir \subseteq tmp_dir'
                 /\ Range(before) \cap created = {}
                 /\ Range(temp_files') = Range(before) \cup created
                 /\ Len(temp_files') = Len(before) + Cardinality(created)
           /\ (pc = "excel_rows" /\ pc' = "done") =>
                 /\ {im.file : im \in sheet'.images} = Range(temp_files')
                 /\ Cardinality(sheet'.images) = Len(temp_files')
           /\ (pc = "pdf_items" /\ pc' = "done") =>
                 /\ {c.file : c \in pdf_images} = Range(temp_files')
                 /\ Cardinality(pdf_images) = Len(temp_files') ]_vars

\* C14 witness: a second call has written and tracked two artifacts while an
\* artifact of an earlier call is still in the temp directory
C14_Witness ==
    /\ pc = "done" /\ Len(report) = 2
    /\ Len(temp_files) = 2
    /\ Range(temp_files) \subseteq tmp_dir
    /\ tmp_dir \ Range(temp_files) # {}

\* C15: export calls whose lifetimes overlap track disjoint sets of artifact
\* paths: the list of the running call shares no path with a pending cleanup,
\* no two pending cleanups share a path, and when a cleanup runs it deletes no
\* file that another pending cleanup or the current call tracks.
C15_DisjointTracking ==
    /\ [](/\ \A t1 \in timers : \A t2 \in timers \ {t1} :
                Range(t1.files) \cap Range(t2.files) = {}
          /\ pc \in {"excel_rows", "pdf_items"} =>
                \A t \in timers : Range(t.files) \cap Range(temp_files) = {})
    /\ [][ \A t \in timers \ timers' :
              \A a \in tmp_dir \ tmp_dir' :
                 /\ a \in Range(t.files) \/ pc' = "exited"
                 /\ \A u \in timers' : a \notin Range(u.files) ]_vars

\* C15 witness: an Excel and a PDF export overlapped, the cleanup of the first
\* has run and the artifacts of the second are all still there, awaiting theirs
C15_Witness ==
    /\ Len(report) = 2 /\ pc = "done"
    /\ \E t \in timers :
          /\ timers = {t}
          /\ t.files # <<>> /\ t.files = temp_files
          /\ tmp_dir = Range(t.files)
          /\ \E a \in tmp_dir : a.uuid > 1

\* C16 (as stated; refuted under SpecRepeat): an export call leaves the project
\* state unchanged: title, items (ids, descriptions, image lists) and
\* max_images_per_row are the same after every step of the call as before it,
\* whether the export succeeds or fails.
C16_ExportLeavesProject ==
    [][ (\/ pc = "idle" /\ pc' \in {"excel_rows", "pdf_items", "done"}
         \/ pc \in {"excel_rows", "pdf_items"})
           => /\ project_title' = project_title
              /\ items' = items
              /\ max_images_per_row' = max_images_per_row
              /\ current_item_id' = current_item_id ]_vars

\* C16, what the legacy export does: the document carries the stripped title
\* and the project's title has been replaced by it
C16_LegacyTitleRewritten ==
    /\ tool = "legacy" /\ pc = "done" /\ report = <<"success">>
    /\ destination = "xlsx"
    /\ sheet.values[<<1, 1>>].text = Strip(PaddedTitle)
    /\ project_title = Strip(PaddedTitle)
    /\ project_title # PaddedTitle

\* C17: an export call reports once, when it ends; a call whose final document
\* write (wb.save / doc.build) failed, so that the chosen path does not hold the
\* document, reports an error and not success; success is reported only with
\* the document written.
C17_OneFailureNoSuccess ==
    [][ LET kind == IF pc = "excel_rows" THEN "xlsx" ELSE "pdf"
            last == report'[Len(report')]
        IN /\ report' # report =>
                 /\ pc \in {"idle", "excel_rows", "pdf_items"} /\ pc' = "done"
                 /\ report' = Append(report, last)
           /\ (pc \in {"excel_rows", "pdf_items"} /\ pc' = "done") =>
                 /\ report' # report
                 /\ last \in {"success", "error"}
                 /\ last = "success" => destination' = kind
                 /\ destination = "none" => (last = "error" <=> destination' = "none")
           /\ (pc = "idle" /\ pc' = "done" /\ last = "success") =>
                 destination' = "pdf" ]_vars

\* C17 witness: the sheet was complete, wb.save raised, the path holds nothing
\* and the one report of the call is the error
C17_Witness ==
    /\ pc = "done" /\ sheet.borders # {}
    /\ Len(report) = 2 /\ report[2] = "error"
    /\ destination = "none"
    /\ story = <<>>

\* C18: two documents of the same kind written by two exports of the same
\* project state and the same files are structurally identical: with the
\* artifact file names left out, the sheets agree in every cell value, merge,
\* image anchor and size, row height, column width and border, and the stories
\* agree flowable by flowable (sections, grids, page breaks); and no artifact
\* file of the first document is used by the second.
C18_Idempotent ==
    LET SheetShape(sh) ==
            [sh EXCEPT !.images = {[anchor |-> im.anchor, source |-> im.source,
                                    w |-> im.w, h |-> im.h] : im \in sh.images}]
        SheetFiles(sh) == {im.file : im \in sh.images}
        IsGrid(e) == e.type = "Table" /\ e.unit = "mm"
        CellShape(c) == IF c.kind = "image" THEN [c EXCEPT !.file = 0] ELSE c
        GridShape(e) ==
            [e EXCEPT !.rows = [r \in 1..Len(e.rows) |->
                                  [k \in 1..Len(e.rows[r]) |-> CellShape(e.rows[r][k])]]]
        FlatShape(e) == IF IsGrid(e) THEN GridShape(e) ELSE e
        ElemShape(e) ==
            IF e.type = "KeepTogether"
            THEN [e EXCEPT !.content = [k \in 1..Len(e.content) |-> FlatShape(e.content[k])]]
            ELSE FlatShape(e)
        StoryShape(st) == [i \in 1..Len(st) |-> ElemShape(st[i])]
        GridFiles(e) ==
            IF IsGrid(e)
            THEN {c.file : c \in {d \in UNION {Range(e.rows[r]) : r \in 1..Len(e.rows)} :
                                     d.kind = "image"}}
            ELSE {}
        ElemFiles(e) ==
            IF e.type = "KeepTogether"
            THEN UNION {GridFiles(e.content[k]) : k \in 1..Len(e.content)}
            ELSE GridFiles(e)
        StoryFiles(st) == UNION {ElemFiles(st[i]) : i \in 1..Len(st)}
    IN (Len(written) = 2 /\ written[1].kind = written[2].kind) =>
          IF written[1].kind = "xlsx"
          THEN /\ SheetShape(written[1].content) = SheetShape(written[2].content)
               /\ SheetFiles(written[1].content) \cap SheetFiles(written[2].content) = {}
          ELSE /\ StoryShape(written[1].content) = StoryShape(written[2].content)
               /\ StoryFiles(written[1].content) \cap StoryFiles(written[2].content) = {}

\* C18 witness: the same project exported twice to PDF, each document with an
\* image from its own artifact and a cell left blank for an unreadable file
C18_Witness ==
    /\ Len(written) = 2
    /\ written[1].kind = "pdf" /\ written[2].kind = "pdf"
    /\ written[1].content # written[2].content
    /\ \E i \in 1..Len(written[2].content) :
          LET e == written[2].content[i]
          IN /\ e.type = "Table" /\ e.unit = "mm"
             /\ \E r \in 1..Len(e.rows) :
                   /\ \E k \in 1..Len(e.rows[r]) : e.rows[r][k].kind = "image"
                   /\ \E k \in 1..Len(e.rows[r]) : e.rows[r][k].kind = "empty"

\* C19: after any sequence of add_item, deletions, moves, new_project,
\* save_project and open_project no two items of the list have the same id, and
\* the id add_item assigns is greater than the id of every item that was in the
\* list.
C19_UniqueIds ==
    /\ [](\A i \in DOMAIN items : \A j \in DOMAIN items :
             i # j => items[i].id # items[j].id)
    /\ [][ add_item =>
             /\ items' = Append(items, items'[Len(items')])
             /\ \A i \in DOMAIN items : items'[Len(items')].id > items[i].id ]_vars

\* C19 witness: the saved project holds the one item with id 2; the list holds
\* that item and a new one, which got id 3
C19_Witness ==
    /\ \E f \in project_file :
          /\ Len(f.items) = 1 /\ f.items[1].id = 2
          /\ Len(items) = 2 /\ items[1] = f.items[1]
    /\ items[2].id = 3 /\ current_item_id = 3
    /\ pc = "idle"

\* C20 (as stated; refuted under SpecFile): save_project writes the title and
\* the items as the project has them, open_project restores title and items of
\* the file (items in order, each with its images in order), and every export
\* puts the images of an item into the cells of its row / its grid in the order
\* of the item's images list.
C20_OrderPreserved ==
    [][ LET placed == SubSeq(story', Len(story) + 1, Len(story'))
            grids == {placed[i] : i \in {k \in 1..Len(placed) :
                                            /\ placed[k].type = "Table"
                                            /\ placed[k].unit = "mm"}}
                     \cup {placed[i].content[2] :
                             i \in {k \in 1..Len(placed) :
                                       /\ placed[k].type = "KeepTogether"
                                       /\ placed[k].content[2].type = "Table"}}
        IN /\ (save_project /\ project_file' # project_file) =>
                 \A f \in project_file' :
                    /\ f.title = project_title
                    /\ f.items = items
           /\ open_project =>
                 \E f \in ProjectFiles \cup project_file :
                    /\ project_title' = f.title
                    /\ items' = f.items
           /\ (pc = "excel_rows" /\ cur' = cur + 1) =>
                 \A j \in 1..Len(items[cur].images) :
                    j <= max_images_per_row =>
                       \/ \E im \in sheet'.images :
                             /\ im.anchor = <<cur + 4, 2 + j>>
                             /\ im.source = items[cur].images[j]
                       \/ /\ <<cur + 4, 2 + j>> \in DOMAIN sheet'.values
                          /\ sheet'.values[<<cur + 4, 2 + j>>].kind = "placeholder"
                          /\ sheet'.values[<<cur + 4, 2 + j>>].n = Basename(items[cur].images[j])
           /\ (pc = "pdf_items" /\ cur' = cur + 1) =>
                 \A g \in grids : \A r \in 1..Len(g.rows) : \A k \in 1..Len(g.rows[r]) :
                    g.rows[r][k].kind = "image" =>
                       LET n == (r - 1) * Len(g.rows[1]) + k
                       IN /\ n <= Len(items[cur].images)
                          /\ g.rows[r][k].source = items[cur].images[n] ]_vars

\* C20, the legacy save: the project file holds the stripped title and the
\* items in their moved order (ids 2, 1), and the project shows the same
C20_LegacySavedStripped ==
    /\ tool = "legacy" /\ pc = "idle"
    /\ project_title = Strip(PaddedTitle)
    /\ Len(items) = 2 /\ items[1].id = 2 /\ items[2].id = 1
    /\ project_file = {ProjectData(Strip(PaddedTitle), items, max_images_per_row)}

\* C21: in the Excel sheet the height of every data row is the maximum of 40
\* and, over the images embedded in that row, fitted height x 0.32 x 0.8
\* (heights in 1/10000; an embedded image carries its height x 0.32 in 1/100);
\* a row without embedded images is exactly 40 high and no row is lower.
C21_RowHeight ==
    \A r \in DOMAIN sheet.heights :
        LET embedded == {im \in sheet.images : im.anchor[1] = r}
            scaled == {im.h * 80 : im \in embedded}
        IN /\ sheet.heights[r] >= 400000
           /\ embedded = {} => sheet.heights[r] = 400000
           /\ \A x \in scaled : sheet.heights[r] >= x
           /\ sheet.heights[r] \in scaled \cup {400000}

\* C21 witness: a row whose first image is the higher one and sets the height,
\* beside a row of an item without images, left at 40
C21_Witness ==
    /\ pc = "done" /\ report = <<"success">>
    /\ \E r \in DOMAIN sheet.heights :
          /\ sheet.heights[r] > 400000
          /\ \E a, b \in sheet.images :
                /\ a.anchor = <<r, 3>> /\ b.anchor = <<r, 4>>
                /\ a.h > b.h /\ sheet.heights[r] = a.h * 80
    /\ \E r \in DOMAIN sheet.heights :
          /\ sheet.heights[r] = 400000
          /\ items[r - 4].images = <<>>

\* C22: whenever an export can start on a non-empty project, reached by any
\* sequence of editing operations, max_images_per_row is at least the image
\* count of every item, so the slice images[:max_images_per_row] of the Excel
\* export holds every image of every item.
C22_SliceDropsNothing ==
    (pc = "idle" /\ items # <<>>) =>
        \A i \in DOMAIN items :
            /\ Len(items[i].images) <= max_images_per_row
            /\ SliceLen(items[i].images) = Len(items[i].images)

\* C22 witness: two items, the second one with two images, the first with one,
\* and max_images_per_row is 2
C22_Witness ==
    /\ pc = "idle" /\ Len(items) = 2
    /\ Len(items[1].images) = 1 /\ Len(items[2].images) = 2
    /\ max_images_per_row = 2

\* C23 (as stated; refuted under Spec): in the modern tool selected_item_index
\* is None or a valid index of the item list after any sequence of add_item,
\* selection, delete_item, moves, new_project and open_project (the selection
\* holds selected_item_index + 1, or nothing for None).
C23_SelectionInRange ==
    tool = "modern" => selection \subseteq DOMAIN items

\* C23, the failure: the second of two items was selected and then deleted;
\* selected_item_index still is 1 while the list has one item
C23_StaleSelection ==
    /\ tool = "modern" /\ pc = "idle"
    /\ Len(items) = 1 /\ selection = {2}

\* C24: after any sequence of add_images, single-image drops (onto the selected
\* item or onto a newly created one) and batch-assign executes, no item's image
\* list holds the same path twice; a step that offers an item a path it already
\* holds leaves that item's list as it was: lists only grow by paths they did
\* not hold.
C24_NoDuplicateImages ==
    /\ [](\A i \in DOMAIN items :
             \A a \in DOMAIN items[i].images : \A b \in DOMAIN items[i].images :
                a # b => items[i].images[a] # items[i].images[b])
    /\ [][ \A i \in DOMAIN items :
              (i \in DOMAIN items' /\ items'[i].id = items[i].id
                 /\ Len(items'[i].images) >= Len(items[i].images)) =>
                 /\ SubSeq(items'[i].images, 1, Len(items[i].images)) = items[i].images
                 /\ \A k \in (Len(items[i].images) + 1)..Len(items'[i].images) :
                       items'[i].images[k] \notin Range(items[i].images) ]_vars

\* C24 witness: a dialog that offered both paths to item 1, which already held
\* the second one, was executed: the item holds each path once
C24_Witness ==
    /\ Len(items) >= 1
    /\ items[1].images = <<Path(2), Path(1)>>
    /\ dialogs = <<>>
    /\ Len(assignments) = 2
    /\ \A i \in DOMAIN assignments : assignments[i].v = 1

\* C25 (as stated; refuted under SpecDialog): executing a batch-assign dialog
\* appends only files that dialog was opened with, each to at most one item,
\* and counts succ + skip + err = the number of files of that dialog (one count
\* per assignment it walks through), also when another dialog was opened or
\* items were deleted before.
C25_ExecuteOwnFiles ==
    [][ execute =>
          \E k \in DOMAIN dialogs :
             /\ dialogs' = DeleteAt(dialogs, k)
             /\ \A i \in DOMAIN items :
                   Range(items'[i].images) \ Range(items[i].images)
                      \subseteq Range(dialogs[k].files)
             /\ \A f \in Range(dialogs[k].files) :
                   Cardinality({i \in DOMAIN items :
                                   f \in Range(items'[i].images) \ Range(items[i].images)}) <= 1
             /\ Len(assignments) = Len(dialogs[k].files) ]_vars

\* C25, the failure: the first of two modern dialogs, opened with the first
\* path alone, was executed; item 1 got the second path, the file of the dialog
\* that is still open
C25_OtherDialogsFile ==
    /\ tool = "modern"
    /\ Len(dialogs) = 1 /\ dialogs[1].current /\ dialogs[1].files = <<Path(2)>>
    /\ Len(items) = 1 /\ items[1].images = <<Path(2)>>
    /\ assignments = NewAssignments(<<Path(2)>>)

\* C26: in the PDF the grid of an item with several images has 2 columns up to
\* 4 images and 3 beyond, ceil(count / columns) full rows, and the i-th image
\* (0-based) owns row i div columns, column i mod columns: that cell shows this
\* image or is blank (always blank for a missing file), and the cells past the
\* last image are blank.
C26_GridPositions ==
    [][ (pc = "pdf_items" /\ cur' = cur + 1 /\ Len(items[cur].images) >= 2) =>
          LET images == items[cur].images
              count == Len(images)
              columns == IF count <= 4 THEN 2 ELSE 3
              placed == SubSeq(story', Len(story) + 1, Len(story'))
              grids == {placed[i] : i \in {k \in 1..Len(placed) : placed[k].type = "Table"}}
                       \cup {placed[i].content[2] :
                               i \in {k \in 1..Len(placed) :
                                         /\ placed[k].type = "KeepTogether"
                                         /\ placed[k].content[2].type = "Table"}}
          IN /\ Cardinality(grids) = 1
             /\ \A g \in grids :
                   /\ Len(g.rows) = (count + columns - 1) \div columns
                   /\ \A r \in 1..Len(g.rows) :
                         /\ Len(g.rows[r]) = columns
                         /\ \A k \in 1..columns :
                               LET i == (r - 1) * columns + (k - 1)
                                   cell == g.rows[r][k]
                               IN IF i < count
                                  THEN /\ cell.kind = "image" => cell.source = images[i + 1]
                                       /\ ~file_pattern[(images[i + 1].name % 2) + 1].exists
                                             => cell.kind = "empty"
                                  ELSE cell.kind = "empty" ]_vars

\* C26 witness: a finished PDF with a three-image grid whose first image is
\* missing: the first cell is blank, the second and third image keep their
\* cells, the fourth cell pads the second row
C26_Witness ==
    /\ pc = "done" /\ report = <<"success">>
    /\ \E i \in DOMAIN story :
          /\ story[i].type = "Table" /\ story[i].unit = "mm"
          /\ Len(story[i].rows) = 2
          /\ story[i].rows[1][1].kind = "empty"
          /\ story[i].rows[1][2].kind = "image"
          /\ story[i].rows[2][1].kind = "image"
          /\ story[i].rows[2][2].kind = "empty"

\* C27 (as stated; refuted under SpecFit): for every source image of positive
\* size the fitted width and height, for the Excel box and for each PDF box,
\* are both at least 1.
C27_FittedPositive ==
    fit_out.done => fit_out.w >= 1 /\ fit_out.h >= 1

\* C27 witness: a 1 x 2000 image fitted into the Excel box: the height binds
\* at 900 and the width is int(900 * 1 / 2000) = 0
C27_ZeroWidth ==
    /\ fit_out.done /\ fit_in.target = "excel"
    /\ fit_in.w = 1 /\ fit_in.h = 2000
    /\ fit_out.w = 0 /\ fit_out.h = 900

\* C28: a move up or down exchanges the selected item with its neighbour and
\* changes nothing else: the list keeps its length, the two exchanged records
\* and all others keep their contents, the selection follows the moved item,
\* the title, id counter and column count stay, and the opposite move from the
\* new selection gives back the original list. No step reorders the items from
\* a selection at the boundary: apart from loading a project file, every step
\* that changes the order is such an exchange with an existing neighbour, so
\* the first item never moves up and the last never moves down.
C28_MoveSwaps ==
    [][ LET k == Min(selection)
            ids(its) == [i \in DOMAIN its |-> its[i].id]
            exchange(its, i, j) ==
                [n \in DOMAIN its |-> IF n = i THEN its[j] ELSE IF n = j THEN its[i] ELSE its[n]]
            moved(d) ==
                /\ k \in DOMAIN items /\ k + d \in DOMAIN items
                /\ items' = exchange(items, k, k + d)
                /\ selection' = {k + d}
                /\ exchange(items', k + d, k) = items
                /\ max_images_per_row' = max_images_per_row
                /\ UNCHANGED <<tool, project_title, current_item_id, dlgVars, envVars>>
        IN /\ move_item_up => moved(-1)
           /\ move_item_down => moved(1)
           /\ (Len(items') = Len(items) /\ ids(items') # ids(items) /\ ~open_project)
                 => selection # {} /\ (moved(-1) \/ moved(1)) ]_vars

\* C28 witness: the second of two items, holding an image, has been moved up
\* and is selected in first place
C28_Witness ==
    /\ Len(items) = 2
    /\ items[1].id = 2 /\ items[2].id = 1
    /\ items[1].images # <<>>
    /\ selection = {1}
    /\ current_item_id = 2

\* C29 (as stated; refuted under SpecRepeat): an export call on an empty item
\* list shows a warning and writes no document, creates no temp artifact and
\* changes no state; a call the user gives up at the default-title prompt or at
\* the destination dialog likewise changes nothing, and reports nothing.
C29_NoEffect ==
    [][ (export_nothing \/ export_cancelled) =>
          /\ UNCHANGED <<tool, project_title, items, current_item_id,
                         max_images_per_row, selection>>
          /\ UNCHANGED <<dlgVars, envVars>>
          /\ UNCHANGED <<sheet, story, temp_files, tmp_dir, timers, next_uuid,
                         destination, written>>
          /\ report' = IF items = <<>> THEN Append(report, "warning") ELSE report ]_vars

====
